---- MODULE Spec2Model ----
(***************************************************************************)
(* Model of the medical CRM synchronisation core.                          *)
(*                                                                         *)
(*   src/server.js         the Sync Service: Express handlers on top of a  *)
(*                         PostgreSQL store (Sequelize) and a Socket.IO    *)
(*                         broadcast.                                      *)
(*   src/unnamed/part_000  the client Reconciliation Controller (the React *)
(*                         App component): fetch-on-load, optimistic local *)
(*                         mutation, socket event merge, local cache.      *)
(*                                                                         *)
(* The store is modelled as the code uses it: three tables, statements     *)
(* that run inside the handler's transaction write to that transaction's   *)
(* pending set and become visible at commit (READ COMMITTED, the default   *)
(* of the 'postgres' dialect chosen at src/server.js:40); a row written by *)
(* an open transaction is locked against other writers until it ends.      *)
(* Each `await` of a handler is one step, so handlers interleave at their  *)
(* awaits and nowhere else.                                                *)
(***************************************************************************)
EXTENDS Integers, Sequences, FiniteSets, TLC

(***************************************************************************)
(* Universes and bounds                                                    *)
(***************************************************************************)
DoctorIds == {"d1", "d2"}
Names     == {"A", "A2"}
VisitIds  == {"v1", "v2"}
Days      == {"mon"}
Reqs      == {1, 2}

\* Number of write requests the server accepts in one run of SpecServer, and
\* number of POST /api/doctors requests in one run of SpecUpsert.
MaxRequests == 2
MaxUpserts  == 2

\* Number of user actions that change data (login, local mutations, backup
\* import) and inbound socket events in one run of the client.
MaxOps == 2

NoRow   == "none"
NoWrite == "nowrite"

\* The body of a POST /api/doctors request.  `name` stands for all the scalar
\* columns; hasVisits / hasSchedule tell whether the field is present (line
\* 158 and 167 test it for truthiness: an empty array is present).
Bodies ==
    { b \in [id : DoctorIds, name : Names,
             hasVisits : BOOLEAN, visits : SUBSET VisitIds,
             hasSchedule : BOOLEAN, schedule : SUBSET Days] :
        /\ (~b.hasVisits => b.visits = {})
        /\ (~b.hasSchedule => b.schedule = {}) }

\* The bodies the runs draw from: each combination of present and absent
\* child arrays, for every id and every value of the scalar columns.
SentBodies ==
    { b \in Bodies :
        <<b.hasVisits, b.visits, b.hasSchedule, b.schedule>> \in
            { <<FALSE, {}, FALSE, {}>>,
              <<TRUE, {}, TRUE, {}>>,
              <<TRUE, {"v1"}, TRUE, {"mon"}>>,
              <<TRUE, {"v2"}, TRUE, {}>>,
              <<FALSE, {}, TRUE, {"mon"}>>,
              <<TRUE, {"v1", "v2"}, FALSE, {}>> } }

\* The concurrent runs save one doctor.
D1Bodies == { b \in SentBodies : b.id = "d1" }

NoBody == [id |-> "d1", name |-> "A", hasVisits |-> FALSE, visits |-> {},
           hasSchedule |-> FALSE, schedule |-> {}]

\* What findOne(..., include: ['visits','schedule']) yields when no row matches.
NullDoc == [id |-> "null", name |-> "null", visits |-> {}, schedule |-> {}]

VARIABLES
    Doctor,      \* table Doctor:   id -> scalar columns, or NoRow
    Visit,       \* table Visit:    id -> doctorRefId, or NoRow
    Schedule,    \* table Schedule: doctorRefId -> the days of its rows
    tx,          \* the POST /api/doctors requests in flight, one per worker slot
    dv,          \* the DELETE /api/doctors/:doctorId/visits/:visitId request in flight
    dd,          \* the last DELETE /api/doctors/:id request and its response
    emitted,     \* io.emit: how many events were broadcast, and the last one
    nReq,        \* number of write requests accepted so far
    client,      \* the App component's state, its localStorage and what it sent
    fetch,       \* the fetchData calls in flight
    Procedure,   \* table Procedure: id -> status, or NoRow
    pu,          \* the POST /api/procedures request in flight
    pd,          \* the last DELETE /api/procedures/:id request and its response
    sockets      \* the socket.io connections the server holds

svars == <<Doctor, Visit, Schedule, tx, dv, dd, emitted, nReq>>
cvars == <<client, fetch>>
pvars == <<Procedure, pu, pd, sockets>>
vars  == <<svars, cvars, pvars>>

(***************************************************************************)
(* The store                                                               *)
(***************************************************************************)
VisitsOf(d)  == {v \in VisitIds : Visit[v] = d}

\* Doctor.findOne({where: {id}, include: ['visits', 'schedule']}) outside any
\* transaction: the committed rows.
FindOneHydrated(d) ==
    IF Doctor[d] = NoRow THEN NullDoc
    ELSE [id |-> d, name |-> Doctor[d], visits |-> VisitsOf(d),
          schedule |-> Schedule[d]]

\* GET /api/doctors
ListDoctors == {FindOneHydrated(d) : d \in {x \in DoctorIds : Doctor[x] # NoRow}}

IdleTx == [pc |-> "idle", data |-> NoBody, inst |-> NoRow, wDoc |-> NoWrite,
           delV |-> {}, insV |-> {}, delS |-> {}, insS |-> {},
           resp |-> "none", dirty |-> FALSE, at |-> "none"]

NoVisits == [v \in VisitIds |-> NoRow]

\* afterDelete / dirty are history: whether the request was issued after a
\* DeleteDoctor removed its doctor, and whether another request has written
\* to the store since it was issued.
IdleDv == [pc |-> "idle", doctorId |-> "d1", visitId |-> "v1",
           status |-> "none", result |-> NullDoc, afterDelete |-> FALSE,
           dirty |-> FALSE]

ProcIds    == {"p1", "p2"}
SocketIds  == {"k1", "k2"}

NullProc == [id |-> "null", status |-> "null"]

\* to: the connections the event was written to.
NoEvent == [type |-> "none", doc |-> NullDoc, proc |-> NullProc, id |-> "null",
            to |-> {}]

\* The connection of the browser whose state is `client`; wire holds the
\* events written to it that its handlers have not run for yet.
WatchedSocket == "k1"
NoneEmitted == [n |-> 0, last |-> NoEvent, wire |-> <<>>]
OnWire(sent) ==
    IF WatchedSocket \in sent.to THEN Append(emitted.wire, sent) ELSE emitted.wire

\* An emit that reaches one connection only.
BroadcastToOne(ev) ==
    LET sent == [ev EXCEPT !.to = IF sockets = {} THEN {}
                                  ELSE {CHOOSE k \in sockets : TRUE}] IN
    [n |-> emitted.n + 1, last |-> sent, wire |-> OnWire(sent)]
\* io.emit(type, payload): every connection of the default namespace is sent
\* the event, the one of the requesting browser like any other.
Broadcast(ev) ==
    LET sent == [ev EXCEPT !.to = sockets] IN
    [n |-> emitted.n + 1, last |-> sent, wire |-> OnWire(sent)]

Emit(type, doc, id) ==
    Broadcast([NoEvent EXCEPT !.type = type, !.doc = doc, !.id = id])
EmitProcedure(type, proc, id) ==
    Broadcast([NoEvent EXCEPT !.type = type, !.proc = proc, !.id = id])

\* req: the number of the request the answer belongs to.
IdleDd == [id |-> "d1", status |-> "none", req |-> 0]

\* A transaction is open from sequelize.transaction() to commit or rollback.
InTx(r) == tx[r].pc \in {"find", "create", "update", "vdel", "vins",
                         "sdel", "sins", "commit"}

Others(r) == {q \in Reqs : q # r /\ InTx(q)}

\* Row locks held by the other open transactions.
DoctorWriteLocked(r, d) ==
    \E q \in Others(r) : tx[q].data.id = d /\ tx[q].wDoc # NoWrite
VisitLocked(r, v) ==
    \E q \in Others(r) : v \in tx[q].delV \cup tx[q].insV
ScheduleLocked(r, d) ==
    \E q \in Others(r) : tx[q].data.id = d /\ tx[q].delS # {}

\* The parent row as transaction r sees it: committed, or inserted by r itself.
ParentVisible(r) ==
    Doctor[tx[r].data.id] # NoRow \/ tx[r].wDoc # NoWrite

\* History: when a request changes the committed store, every other save
\* that has already committed is marked: its rows are no longer the last
\* write.
MarkDirty(t, r, changed) ==
    [q \in Reqs |-> IF changed /\ q # r /\ t[q].pc \in {"reread", "done"}
                    THEN [t[q] EXCEPT !.dirty = TRUE] ELSE t[q]]
MarkDvDirty(d, changed) ==
    IF changed /\ d.pc # "idle" THEN [d EXCEPT !.dirty = TRUE] ELSE d

(***************************************************************************)
(* POST /api/doctors (src/server.js:141-191)                               *)
(***************************************************************************)
AfterVisits(b) == IF b.hasSchedule THEN "sdel" ELSE "commit"
\* The visits replaced whether or not the body has the field.
AfterDoctorAlwaysReplace(b) == "vdel"
AfterDoctor(b) == IF b.hasVisits THEN "vdel" ELSE AfterVisits(b)

\* A request arrives on a free worker slot and opens its transaction, line
\* 143: const t = await sequelize.transaction().  That call is outside the
\* try: when it rejects, the handler ends without a response.
ReceiveUpsert(r, b) ==
    /\ tx[r].pc \in {"idle", "done", "crashed"}
    /\ \/ tx' = [tx EXCEPT ![r] = [IdleTx EXCEPT !.pc = "find", !.data = b]]
       \/ tx' = [tx EXCEPT ![r] = [IdleTx EXCEPT !.pc = "crashed", !.data = b]]
    /\ nReq' = nReq + 1
    /\ UNCHANGED <<Doctor, Visit, Schedule, dv, dd, emitted, cvars, pvars>>

\* lines 147-151, the find of findOrCreate: a row is found, or none is.
FindDoctor(r) ==
    /\ tx[r].pc = "find"
    /\ LET d == tx[r].data.id IN
       tx' = IF Doctor[d] # NoRow
             THEN [tx EXCEPT ![r].pc = "update", ![r].inst = Doctor[d]]
             ELSE [tx EXCEPT ![r].pc = "create"]
    /\ UNCHANGED <<Doctor, Visit, Schedule, dv, dd, emitted, nReq, cvars, pvars>>

\* lines 147-151, the create of findOrCreate with defaults: data.  The insert
\* waits for an open transaction that inserted the same primary key; when the
\* key has been committed meanwhile, findOrCreate catches the unique
\* violation and returns that row with created = false.
CreateDoctor(r) ==
    /\ tx[r].pc = "create"
    /\ LET d == tx[r].data.id IN
       IF Doctor[d] # NoRow
       THEN tx' = [tx EXCEPT ![r].pc = "update", ![r].inst = Doctor[d]]
       ELSE /\ ~DoctorWriteLocked(r, d)
            /\ tx' = [tx EXCEPT ![r].pc = AfterDoctor(tx[r].data),
                                ![r].wDoc = tx[r].data.name]
    /\ UNCHANGED <<Doctor, Visit, Schedule, dv, dd, emitted, nReq, cvars, pvars>>

\* lines 153-155: doctor.update(data, {transaction: t}).  The instance is the
\* one read by the find; Sequelize's save issues no UPDATE when no attribute
\* differs from the instance, and then no row lock is taken.  An UPDATE waits
\* for the row's lock, and matches no row when the doctor has been deleted.
UpdateDoctor(r) ==
    /\ tx[r].pc = "update"
    /\ LET d == tx[r].data.id
           b == tx[r].data IN
       IF b.name = tx[r].inst
       THEN tx' = [tx EXCEPT ![r].pc = AfterDoctor(b)]
       ELSE /\ ~DoctorWriteLocked(r, d)
            /\ tx' = [tx EXCEPT ![r].pc = AfterDoctor(b),
                                ![r].wDoc = IF Doctor[d] # NoRow THEN b.name
                                            ELSE NoWrite]
    /\ UNCHANGED <<Doctor, Visit, Schedule, dv, dd, emitted, nReq, cvars, pvars>>

\* Visit.destroy without {transaction: t}: the rows go at once.
DestroyVisitsNoTx(r) ==
    LET d == tx[r].data.id
        b == tx[r].data IN
    /\ tx[r].pc = "vdel"
    /\ \A v \in VisitsOf(d) : ~(\E q \in Reqs : q # r /\ InTx(q)
                                   /\ v \in tx[q].delV \cup tx[q].insV)
    /\ Visit' = [v \in VisitIds |-> IF Visit[v] = d THEN NoRow ELSE Visit[v]]
    /\ tx' = [tx EXCEPT ![r].pc = IF b.visits # {} THEN "vins"
                                  ELSE IF b.hasSchedule THEN "sdel" ELSE "commit"]
    /\ UNCHANGED <<Doctor, Schedule, dv, dd, emitted, nReq, client, fetch, pvars>>

\* line 159: Visit.destroy({where: {doctorRefId: data.id}, transaction: t}).
\* It waits while another open transaction holds one of the rows.
DestroyVisitsTx(r) ==
    LET d == tx[r].data.id
        b == tx[r].data
        targets == VisitsOf(d) IN
    /\ tx[r].pc = "vdel"
    /\ \A v \in targets : ~VisitLocked(r, v)
    /\ tx' = [tx EXCEPT ![r].delV = targets,
                        ![r].pc = IF b.visits # {} THEN "vins"
                                  ELSE AfterVisits(b)]
    /\ UNCHANGED <<Doctor, Visit, Schedule, dv, dd, emitted, nReq, cvars, pvars>>

\* The constraints the store checks on Visit.bulkCreate: the primary key id is
\* unique over the whole table (line 77), and doctorRefId references an
\* existing Doctor (lines 113-114).
VisitKeyFree(r, v) == Visit[v] = NoRow \/ v \in tx[r].delV
BulkCreateVisitsNoFk(r) ==
    \A v \in tx[r].data.visits : Visit[v] = NoRow \/ v \in tx[r].delV
BulkCreateVisitsOk(r) ==
    /\ \A v \in tx[r].data.visits : VisitKeyFree(r, v)
    /\ ParentVisible(r)

\* lines 160-163: Visit.bulkCreate(visitsWithRef, {transaction: t}).
BulkCreateVisits(r) ==
    LET b == tx[r].data IN
    /\ tx[r].pc = "vins"
    /\ \A v \in b.visits : ~VisitLocked(r, v)
    /\ BulkCreateVisitsOk(r)
    /\ tx' = [tx EXCEPT ![r].insV = b.visits, ![r].pc = AfterVisits(b)]
    /\ UNCHANGED <<Doctor, Visit, Schedule, dv, dd, emitted, nReq, cvars, pvars>>

\* line 168: Schedule.destroy({where: {doctorRefId: data.id}, transaction: t}).
DestroyScheduleTx(r) ==
    LET d == tx[r].data.id
        b == tx[r].data IN
    /\ tx[r].pc = "sdel"
    /\ ~ScheduleLocked(r, d)
    /\ tx' = [tx EXCEPT ![r].delS = Schedule[d],
                        ![r].pc = IF b.schedule # {} THEN "sins" ELSE "commit"]
    /\ UNCHANGED <<Doctor, Visit, Schedule, dv, dd, emitted, nReq, cvars, pvars>>

\* lines 169-172: Schedule.bulkCreate(scheduleWithRef, {transaction: t}).
BulkCreateSchedule(r) ==
    LET b == tx[r].data IN
    /\ tx[r].pc = "sins"
    /\ ParentVisible(r)
    /\ tx' = [tx EXCEPT ![r].insS = b.schedule, ![r].pc = "commit"]
    /\ UNCHANGED <<Doctor, Visit, Schedule, dv, dd, emitted, nReq, cvars, pvars>>

\* What t.rollback() leaves of the request: nothing pending, an error answer.
\* `at` is history: the statement that threw.
RolledBack(t) ==
    [IdleTx EXCEPT !.pc = "done", !.data = t.data, !.resp = "error",
                   !.dirty = t.dirty, !.at = t.pc]

\* lines 186-190: a statement of steps 1-3 throws (a storage failure, or a
\* constraint the bulk insert violates); the catch rolls the transaction
\* back and answers 500.
StatementThrows(r) ==
    tx[r].pc \in {"find", "create", "update", "vdel", "vins", "sdel", "sins"}
UpsertStepFails(r) ==
    /\ StatementThrows(r)
    /\ tx' = [tx EXCEPT ![r] = RolledBack(tx[r])]
    /\ UNCHANGED <<Doctor, Visit, Schedule, dv, dd, emitted, nReq, cvars, pvars>>

\* The tables once transaction r's pending writes are applied.
CommittedDoctor(r) ==
    IF tx[r].wDoc # NoWrite
    THEN [Doctor EXCEPT ![tx[r].data.id] = tx[r].wDoc] ELSE Doctor
CommittedVisit(r) ==
    [v \in VisitIds |->
        IF v \in tx[r].insV THEN tx[r].data.id
        ELSE IF v \in tx[r].delV THEN NoRow
        ELSE Visit[v]]
CommittedSchedule(r) ==
    [Schedule EXCEPT ![tx[r].data.id] = (@ \ tx[r].delS) \cup tx[r].insS]

\* line 175: await t.commit().
CommitTx(r) ==
    /\ tx[r].pc = "commit"
    /\ Doctor' = CommittedDoctor(r)
    /\ Visit' = CommittedVisit(r)
    /\ Schedule' = CommittedSchedule(r)
    /\ LET changed == <<Doctor', Visit', Schedule'>> # <<Doctor, Visit, Schedule>>
           mine == [tx[r] EXCEPT !.pc = "reread", !.wDoc = NoWrite,
                                 !.delV = {}, !.insV = {}, !.delS = {},
                                 !.insS = {}, !.inst = NoRow] IN
       /\ tx' = MarkDirty([tx EXCEPT ![r] = mine], r, changed)
       /\ dv' = MarkDvDirty(dv, changed)
    /\ UNCHANGED <<dd, emitted, nReq, cvars, pvars>>

\* line 175 throws: the catch calls t.rollback() on a transaction that commit
\* has already marked finished, which throws again inside the catch; the
\* handler ends without a response and nothing of the transaction is kept.
CommitFails(r) ==
    /\ tx[r].pc = "commit"
    /\ tx' = [tx EXCEPT ![r] = [RolledBack(tx[r]) EXCEPT !.pc = "crashed",
                                                         !.resp = "none"]]
    /\ UNCHANGED <<Doctor, Visit, Schedule, dv, dd, emitted, nReq, cvars, pvars>>

\* lines 178-184: re-read the doctor with its children, broadcast it, answer.
ReReadAndPublish(r) ==
    /\ tx[r].pc = "reread"
    /\ LET updatedDoctor == FindOneHydrated(tx[r].data.id) IN
       /\ emitted' = Emit("doctor_updated", updatedDoctor, updatedDoctor.id)
       /\ tx' = [tx EXCEPT ![r].pc = "done", ![r].resp = "ok"]
    /\ UNCHANGED <<Doctor, Visit, Schedule, dv, dd, nReq, cvars, pvars>>

\* line 178 throws after the commit: the catch's t.rollback() throws on the
\* finished transaction, so no response is sent and nothing is broadcast.
ReReadFails(r) ==
    /\ tx[r].pc = "reread"
    /\ tx' = [tx EXCEPT ![r].pc = "crashed"]
    /\ UNCHANGED <<Doctor, Visit, Schedule, dv, dd, emitted, nReq, cvars, pvars>>

UpsertDoctor(r) ==
    \/ FindDoctor(r)
    \/ CreateDoctor(r)
    \/ UpdateDoctor(r)
    \/ DestroyVisitsTx(r)
    \/ BulkCreateVisits(r)
    \/ DestroyScheduleTx(r)
    \/ BulkCreateSchedule(r)
    \/ UpsertStepFails(r)
    \/ CommitTx(r)
    \/ CommitFails(r)
    \/ ReReadAndPublish(r)
    \/ ReReadFails(r)

(***************************************************************************)
(* DELETE /api/doctors/:id (src/server.js:193-206)                         *)
(***************************************************************************)
\* The DELETE waits for every open transaction that holds the doctor's row
\* (written, or referenced by a child it inserted) or one of its child rows.
DoctorRowHeld(id) ==
    \E q \in Reqs :
        /\ InTx(q)
        /\ \/ /\ tx[q].data.id = id
              /\ \/ tx[q].wDoc # NoWrite
                 \/ tx[q].insV # {}
                 \/ tx[q].insS # {}
                 \/ tx[q].delS # {}
           \/ tx[q].delV \cap VisitsOf(id) # {}

\* lines 113-118: onDelete: 'CASCADE' on both associations.
CascadeVisits(id) == [v \in VisitIds |-> IF Visit[v] = id THEN NoRow ELSE Visit[v]]
CascadeSchedule(id) == [Schedule EXCEPT ![id] = {}]

\* The doctor delete written like the procedure delete (lines 255-264): the
\* event and the success answer do not depend on the number of rows.
DeleteDoctorAlwaysPublish(id) ==
    /\ nReq' = nReq + 1
    /\ UNCHANGED <<cvars, pvars>>
    /\ \/ /\ dd' = [id |-> id, status |-> "error", req |-> nReq + 1]
          /\ UNCHANGED <<Doctor, Visit, Schedule, tx, dv, emitted>>
       \/ /\ ~DoctorRowHeld(id)
          /\ Doctor' = [Doctor EXCEPT ![id] = NoRow]
          /\ Visit' = CascadeVisits(id)
          /\ Schedule' = CascadeSchedule(id)
          /\ emitted' = Emit("doctor_deleted", NullDoc, id)
          /\ dd' = [id |-> id, status |-> "ok", req |-> nReq + 1]
          /\ tx' = MarkDirty(tx, 0, Doctor[id] # NoRow)
          /\ dv' = MarkDvDirty(dv, Doctor[id] # NoRow)

DeleteDoctor(id) ==
    /\ nReq' = nReq + 1
    /\ UNCHANGED <<cvars, pvars>>
    /\ \/ \* line 196 throws: 500 (lines 203-205)
          /\ dd' = [id |-> id, status |-> "error", req |-> nReq + 1]
          /\ UNCHANGED <<Doctor, Visit, Schedule, tx, dv, emitted>>
       \/ \* result = 0: 404 (lines 200-202)
          /\ Doctor[id] = NoRow
          /\ dd' = [id |-> id, status |-> "notfound", req |-> nReq + 1]
          /\ UNCHANGED <<Doctor, Visit, Schedule, tx, dv, emitted>>
       \/ \* result > 0: broadcast and 200 (lines 197-199)
          /\ Doctor[id] # NoRow
          /\ ~DoctorRowHeld(id)
          /\ Doctor' = [Doctor EXCEPT ![id] = NoRow]
          /\ Visit' = CascadeVisits(id)
          /\ Schedule' = CascadeSchedule(id)
          /\ emitted' = Emit("doctor_deleted", NullDoc, id)
          /\ dd' = [id |-> id, status |-> "ok", req |-> nReq + 1]
          /\ tx' = MarkDirty(tx, 0, TRUE)
          /\ dv' = MarkDvDirty(dv, TRUE)

(***************************************************************************)
(* DELETE /api/doctors/:doctorId/visits/:visitId (src/server.js:208-223)   *)
(***************************************************************************)
\* Visit.destroy({where: {id: visitId}}): the owner is not checked.
DestroyVisitAnyOwner(doctorId, visitId) ==
    [v \in VisitIds |-> IF v = visitId THEN NoRow ELSE Visit[v]]

\* line 211: Visit.destroy({where: {id: visitId, doctorRefId: doctorId}}).
DestroyVisitWhere(doctorId, visitId) ==
    [v \in VisitIds |->
        IF v = visitId /\ Visit[v] = doctorId THEN NoRow ELSE Visit[v]]

DeleteVisitDestroy(doctorId, visitId) ==
    /\ dv.pc \in {"idle", "done"}
    /\ nReq' = nReq + 1
    /\ LET issued == [IdleDv EXCEPT !.doctorId = doctorId, !.visitId = visitId,
                          !.afterDelete = (dd.id = doctorId /\ dd.status = "ok"
                                           /\ Doctor[doctorId] = NoRow)] IN
       \/ \* line 211 throws: 500 (lines 220-222)
          /\ dv' = [issued EXCEPT !.pc = "done", !.status = "error"]
          /\ UNCHANGED <<Visit, tx>>
       \/ /\ \A q \in Reqs : InTx(q) => visitId \notin tx[q].delV \cup tx[q].insV
          /\ Visit' = DestroyVisitWhere(doctorId, visitId)
          /\ dv' = [issued EXCEPT !.pc = "reread"]
          /\ tx' = MarkDirty(tx, 0, Visit' # Visit)
    /\ UNCHANGED <<Doctor, Schedule, dd, emitted, cvars, pvars>>

\* lines 213-219: re-read the parent, broadcast it, answer success.
DeleteVisitReRead ==
    /\ dv.pc = "reread"
    /\ \/ \* line 213 throws: 500 (lines 220-222)
          /\ dv' = [dv EXCEPT !.pc = "done", !.status = "error"]
          /\ UNCHANGED emitted
       \/ LET updatedDoc == FindOneHydrated(dv.doctorId) IN
          /\ emitted' = Emit("doctor_updated", updatedDoc, updatedDoc.id)
          /\ dv' = [dv EXCEPT !.pc = "done", !.status = "ok",
                              !.result = updatedDoc]
    /\ UNCHANGED <<Doctor, Visit, Schedule, tx, dd, nReq, cvars, pvars>>

(***************************************************************************)
(* Socket connections (src/server.js:24-29)                                *)
(***************************************************************************)
\* io.on('connection'): a browser's socket is connected.
SocketConnected(k) ==
    /\ k \notin sockets
    /\ sockets' = sockets \cup {k}
    /\ UNCHANGED <<svars, cvars, Procedure, pu, pd>>

\* socket.on('disconnect')
SocketDisconnected(k) ==
    /\ k \in sockets
    /\ sockets' = sockets \ {k}
    /\ UNCHANGED <<svars, cvars, Procedure, pu, pd>>

(***************************************************************************)
(* POST /api/procedures (src/server.js:236-253)                            *)
(***************************************************************************)
ProcBodies == {[id |-> "p1", status |-> "s1"], [id |-> "p1", status |-> "s2"]}

NoProcedures == [p \in ProcIds |-> NoRow]
IdlePu == [pc |-> "idle", data |-> [id |-> "p1", status |-> "s1"],
           resp |-> "none"]
IdlePd == [id |-> "p1", status |-> "none", req |-> 0]

\* line 237: the body arrives.
ReceiveUpsertProcedure(b) ==
    /\ pu.pc \in {"idle", "done"}
    /\ pu' = [IdlePu EXCEPT !.pc = "find", !.data = b]
    /\ nReq' = nReq + 1
    /\ UNCHANGED <<Doctor, Visit, Schedule, tx, dv, dd, emitted, cvars,
                   Procedure, pd, sockets>>

\* lines 239-242: Procedure.findOrCreate({where: {id}, defaults: data}), in a
\* transaction of its own: the row is inserted and committed, or it is found.
FindOrCreateProcedure ==
    /\ pu.pc = "find"
    /\ IF Procedure[pu.data.id] = NoRow
       THEN /\ Procedure' = [Procedure EXCEPT ![pu.data.id] = pu.data.status]
            /\ pu' = [pu EXCEPT !.pc = "publish"]
       ELSE /\ pu' = [pu EXCEPT !.pc = "update"]
            /\ UNCHANGED Procedure
    /\ UNCHANGED <<svars, cvars, pd, sockets>>

\* lines 243-245: procedure.update(data), an UPDATE by primary key in
\* autocommit; a row deleted since the find is not an error.
UpdateProcedure ==
    /\ pu.pc = "update"
    /\ Procedure' = IF Procedure[pu.data.id] = NoRow THEN Procedure
                    ELSE [Procedure EXCEPT ![pu.data.id] = pu.data.status]
    /\ pu' = [pu EXCEPT !.pc = "publish"]
    /\ UNCHANGED <<svars, cvars, pd, sockets>>

\* lines 247-248: broadcast the instance, answer with it.
PublishProcedure ==
    /\ pu.pc = "publish"
    /\ emitted' = EmitProcedure("procedure_updated", pu.data, pu.data.id)
    /\ pu' = [pu EXCEPT !.pc = "done", !.resp = "ok"]
    /\ UNCHANGED <<Doctor, Visit, Schedule, tx, dv, dd, nReq, cvars,
                   Procedure, pd, sockets>>

\* lines 249-252: a statement throws: 500.
UpsertProcedureFails ==
    /\ pu.pc \in {"find", "update"}
    /\ pu' = [pu EXCEPT !.pc = "done", !.resp = "error"]
    /\ UNCHANGED <<svars, cvars, Procedure, pd, sockets>>

UpsertProcedure ==
    \/ FindOrCreateProcedure
    \/ UpdateProcedure
    \/ PublishProcedure
    \/ UpsertProcedureFails

(***************************************************************************)
(* DELETE /api/procedures/:id (src/server.js:255-264)                      *)
(***************************************************************************)
DeleteProcedure(id) ==
    /\ nReq' = nReq + 1
    /\ \/ \* line 257 throws: 500 (lines 261-263)
          /\ pd' = [id |-> id, status |-> "error", req |-> nReq + 1]
          /\ UNCHANGED <<Procedure, emitted>>
       \/ \* lines 257-260: destroy, broadcast, success with the row count
          /\ Procedure' = [Procedure EXCEPT ![id] = NoRow]
          /\ emitted' = EmitProcedure("procedure_deleted", NullProc, id)
          /\ pd' = [id |-> id, status |-> "ok", req |-> nReq + 1]
    /\ UNCHANGED <<Doctor, Visit, Schedule, tx, dv, dd, cvars, pu, sockets>>

(***************************************************************************)
(* The client: App (src/unnamed/part_000)                                  *)
(***************************************************************************)
\* The doctor records the client handles: what the server sends and what
\* the pages hand to the callbacks.
D1A   == [id |-> "d1", name |-> "A",  visits |-> {},     schedule |-> {}]
D1A2  == [id |-> "d1", name |-> "A2", visits |-> {},     schedule |-> {}]
D1Av1 == [id |-> "d1", name |-> "A",  visits |-> {"v1"}, schedule |-> {}]
D2A   == [id |-> "d2", name |-> "A",  visits |-> {},     schedule |-> {}]
ClientDocs  == {D1A, D1A2, D1Av1, D2A}
ClientProcs == {[id |-> "p1", status |-> "s1"], [id |-> "p1", status |-> "s2"],
                [id |-> "p2", status |-> "s1"]}

\* parseData() of ./constants: the canonical default dataset.
parseData == <<D1A, D2A>>

\* A localStorage entry: never written, a JSON array, or text that
\* JSON.parse rejects.
Absent    == [state |-> "absent",  list |-> <<>>]
Corrupt   == [state |-> "corrupt", list |-> <<>>]
Stored(l) == [state |-> "valid",   list |-> l]

\* What fetch() resolves to: no response at all (the .catch(() => null) of
\* lines 75-76), a response that is not ok, or a list.
NoResponse == [kind |-> "none", list |-> <<>>]
NotOk      == [kind |-> "bad",  list |-> <<>>]
Ok(l)      == [kind |-> "ok",   list |-> l]

DocResponses  == {NoResponse, NotOk, Ok(<<>>), Ok(<<D2A, D1A2>>)}
ProcResponses == {NoResponse, NotOk, Ok(<<[id |-> "p1", status |-> "s1"]>>)}

FetchIds == {1, 2}
IdleFetch == [pc |-> "idle", docRes |-> NoResponse, procRes |-> NoResponse,
              hasData |-> FALSE]

NoOp == [op |-> "none", doc |-> NullDoc, proc |-> NullProc, id |-> "null",
         visitId |-> "null"]
Op(op, doc, proc, id, visitId) ==
    [op |-> op, doc |-> doc, proc |-> proc, id |-> id, visitId |-> visitId]

\* Array.prototype.map, .filter and .find (as a test) on the lists of the
\* component's state.
MapReplace(l, x)  == [i \in 1..Len(l) |-> IF l[i].id = x.id THEN x ELSE l[i]]
RECURSIVE FilterOut(_, _)
FilterOut(l, id) ==
    IF l = <<>> THEN <<>>
    ELSE IF Head(l).id = id THEN FilterOut(Tail(l), id)
    ELSE <<Head(l)>> \o FilterOut(Tail(l), id)
Exists(l, id) == \E i \in 1..Len(l) : l[i].id = id

\* lines 53-66: loadFromLocalStorage.  The three reads share one try: the
\* first entry that JSON.parse rejects ends the function.
loadFromLocalStorage(c) ==
    IF c.cache.doctors.state = "corrupt" THEN c
    ELSE LET c1 == IF c.cache.doctors.state = "valid"
                   THEN [c EXCEPT !.doctors = c.cache.doctors.list] ELSE c IN
         IF c.cache.procedures.state = "corrupt" THEN c1
         ELSE LET c2 == IF c.cache.procedures.state = "valid"
                        THEN [c1 EXCEPT !.procedures = c.cache.procedures.list]
                        ELSE c1 IN
              IF c.cache.timeoff.state = "corrupt" THEN c2
              ELSE IF c.cache.timeoff.state = "valid"
                   THEN [c2 EXCEPT !.timeOffEvents = c.cache.timeoff.list]
                   ELSE c2

\* lines 120-126: the catch of fetchData.
fetchDataCatch(c) == loadFromLocalStorage([c EXCEPT !.isOnline = FALSE])

\* lines 108-130: what fetchData does after its last await, given the two
\* responses and whether either gave data.
fetchDataTail(c, docRes, procRes, hasData) ==
    LET done ==
        IF c.cache.timeoff.state = "corrupt" THEN fetchDataCatch(c)
        ELSE LET c1 == IF c.cache.timeoff.state = "valid"
                       THEN [c EXCEPT !.timeOffEvents = c.cache.timeoff.list]
                       ELSE c IN
             IF hasData THEN [c1 EXCEPT !.isOnline = TRUE]
             ELSE IF docRes.kind = "none" /\ procRes.kind = "none"
                  THEN fetchDataCatch(c1)
                  ELSE c1
    IN [done EXCEPT !.loading = FALSE]

Post(doc) == Op("POST /doctors", doc, NullProc, doc.id, "null")

\* The doctor response merged under the local list instead of replacing it:
\* a record the client holds stays in place of the fetched one with its id.
fetchDataDoctorsKeepLocal(c, docData) ==
    LET fetched == IF docData = <<>> THEN parseData ELSE docData
        Local(d) == IF \E i \in 1..Len(c.doctors) : c.doctors[i].id = d.id
                    THEN c.doctors[CHOOSE i \in 1..Len(c.doctors) :
                                       c.doctors[i].id = d.id]
                    ELSE d
        finalDoctors == [i \in 1..Len(fetched) |-> Local(fetched[i])]
        seeding == IF docData = <<>>
                   THEN [i \in 1..Len(parseData) |-> Post(parseData[i])]
                   ELSE <<>> IN
    [c EXCEPT !.doctors = finalDoctors,
              !.cache.doctors = Stored(finalDoctors),
              !.outbox = c.outbox \o seeding]

\* The seeding that posts the first default doctor only.
fetchDataDoctorsSeedFirst(c, docData) ==
    LET finalDoctors == IF docData = <<>> THEN parseData ELSE docData
        seeding == IF docData = <<>> THEN <<Post(parseData[1])>> ELSE <<>> IN
    [c EXCEPT !.doctors = finalDoctors,
              !.cache.doctors = Stored(finalDoctors),
              !.outbox = c.outbox \o seeding]

\* lines 81-99: the doctor response after await docRes.json().  An empty
\* list makes the client adopt the default dataset and POST each of its
\* doctors (whatever isOnline says: these calls do not go through
\* saveDoctorToApi).
fetchDataDoctors(c, docData) ==
    LET finalDoctors == IF docData = <<>> THEN parseData ELSE docData
        seeding == IF docData = <<>>
                   THEN [i \in 1..Len(parseData) |-> Post(parseData[i])]
                   ELSE <<>> IN
    [c EXCEPT !.doctors = finalDoctors,
              !.cache.doctors = Stored(finalDoctors),
              !.outbox = c.outbox \o seeding]

\* lines 101-106: the procedure response after await procRes.json().
fetchDataProcedures(c, procData) ==
    [c EXCEPT !.procedures = procData, !.cache.procedures = Stored(procData)]

\* line 74 resumes with the two responses; without an ok response to read,
\* the function runs to its end in the same turn.
FetchArrive(f, docRes, procRes) ==
    /\ fetch[f].pc = "wait"
    /\ IF docRes.kind = "ok"
       THEN /\ fetch' = [fetch EXCEPT ![f].pc = "docjson", ![f].docRes = docRes,
                                      ![f].procRes = procRes]
            /\ UNCHANGED client
       ELSE IF procRes.kind = "ok"
       THEN /\ fetch' = [fetch EXCEPT ![f].pc = "procjson", ![f].docRes = docRes,
                                      ![f].procRes = procRes]
            /\ UNCHANGED client
       ELSE /\ fetch' = [fetch EXCEPT ![f] = [IdleFetch EXCEPT !.pc = "done",
                                   !.docRes = docRes, !.procRes = procRes]]
            /\ client' = fetchDataTail(client, docRes, procRes, FALSE)
    /\ UNCHANGED <<svars, pvars>>

\* line 82 resumes with the doctor list.
FetchDoctorsRead(f) ==
    /\ fetch[f].pc = "docjson"
    /\ LET c1 == fetchDataDoctors(client, fetch[f].docRes.list) IN
       IF fetch[f].procRes.kind = "ok"
       THEN /\ fetch' = [fetch EXCEPT ![f].pc = "procjson", ![f].hasData = TRUE]
            /\ client' = c1
       ELSE /\ fetch' = [fetch EXCEPT ![f].pc = "done", ![f].hasData = TRUE]
            /\ client' = fetchDataTail(c1, fetch[f].docRes, fetch[f].procRes, TRUE)
    /\ UNCHANGED <<svars, pvars>>

\* line 102 resumes with the procedure list.
FetchProceduresRead(f) ==
    /\ fetch[f].pc = "procjson"
    /\ fetch' = [fetch EXCEPT ![f].pc = "done", ![f].hasData = TRUE]
    /\ client' = fetchDataTail(fetchDataProcedures(client, fetch[f].procRes.list),
                               fetch[f].docRes, fetch[f].procRes, TRUE)
    /\ UNCHANGED <<svars, pvars>>

\* A slot whose call has returned can serve the next call.
FreeSlot == CHOOSE f \in FetchIds :
                /\ fetch[f].pc \in {"idle", "done"}
                /\ \A g \in FetchIds : fetch[g].pc \in {"idle", "done"} => f <= g
HasFreeSlot == \E f \in FetchIds : fetch[f].pc \in {"idle", "done"}

\* fetchData(): lines 68-70, up to the first await.
fetchDataCall(c) == [c EXCEPT !.loading = TRUE]
Calling == [fetch EXCEPT ![FreeSlot] = [IdleFetch EXCEPT !.pc = "wait"]]

\* History: every login, local mutation and inbound event is counted, and
\* the last one is kept with its arguments.
Did(c, o) == [c EXCEPT !.nOps = c.nOps + 1, !.last = o]

\* lines 215-225: the mount effect.
Mount(savedUser) ==
    /\ ~client.mounted
    /\ HasFreeSlot
    /\ client' = fetchDataCall(loadFromLocalStorage(
                    [client EXCEPT !.mounted = TRUE, !.user = savedUser]))
    /\ fetch' = Calling
    /\ UNCHANGED <<svars, pvars>>

\* lines 269-273: handleLogin.
handleLogin ==
    /\ client.mounted /\ ~client.user
    /\ HasFreeSlot
    /\ client.nOps < MaxOps
    /\ client' = fetchDataCall(Did([client EXCEPT !.user = TRUE],
                                   Op("handleLogin", NullDoc, NullProc, "null", "null")))
    /\ fetch' = Calling
    /\ UNCHANGED <<svars, pvars>>

\* lines 275-278 and 210-212: handleLogout; the effect's cleanup disconnects
\* the socket, whose 'disconnect' handler (151-154) runs.
handleLogout ==
    /\ client.mounted /\ client.user
    /\ client' = [client EXCEPT !.user = FALSE, !.socketConnected = FALSE]
    /\ UNCHANGED <<fetch, svars, pvars>>

\* The socket exists while a user is logged in (lines 133-144).
\* lines 145-149: 'connect'.
SocketConnect ==
    /\ client.mounted /\ client.user /\ ~client.socketConnected
    /\ client' = [client EXCEPT !.socketConnected = TRUE, !.isOnline = TRUE]
    /\ UNCHANGED <<fetch, svars, pvars>>

\* lines 151-158: 'disconnect' and 'connect_error'.
SocketDisconnect ==
    /\ client.mounted /\ client.user /\ client.socketConnected
    /\ client' = [client EXCEPT !.socketConnected = FALSE]
    /\ UNCHANGED <<fetch, svars, pvars>>

\* The doctor merge written like the procedure merge: a new record goes last.
onDoctorUpdatedAppend(prev, updatedDoc) ==
    IF \E i \in 1..Len(prev) : prev[i].id = updatedDoc.id
    THEN [i \in 1..Len(prev) |-> IF prev[i].id = updatedDoc.id THEN updatedDoc
                                 ELSE prev[i]]
    ELSE prev \o <<updatedDoc>>

\* The doctor merge without its lookup: the record always goes first.
onDoctorUpdatedAlwaysPrepend(prev, updatedDoc) == <<updatedDoc>> \o prev

\* lines 162-172: the updater of 'server:doctor_updated'.
onDoctorUpdated(prev, updatedDoc) ==
    IF Exists(prev, updatedDoc.id) THEN MapReplace(prev, updatedDoc)
    ELSE <<updatedDoc>> \o prev

\* lines 176-180: the updater of 'server:doctor_deleted'.
onDoctorDeleted(prev, id) == FilterOut(prev, id)

\* The procedure merge written like the doctor merge: a new record goes first.
onProcedureUpdatedPrepend(prev, updatedProc) ==
    IF \E i \in 1..Len(prev) : prev[i].id = updatedProc.id
    THEN [i \in 1..Len(prev) |-> IF prev[i].id = updatedProc.id THEN updatedProc
                                 ELSE prev[i]]
    ELSE <<updatedProc>> \o prev

\* lines 185-195: the updater of 'server:procedure_updated'.
onProcedureUpdated(prev, updatedProc) ==
    IF Exists(prev, updatedProc.id) THEN MapReplace(prev, updatedProc)
    ELSE prev \o <<updatedProc>>

\* lines 199-203: the updater of 'server:procedure_deleted'.
onProcedureDeleted(prev, id) == FilterOut(prev, id)

Listening == client.mounted /\ client.user /\ client.socketConnected
CanAct    == client.nOps < MaxOps

\* lines 160-173.  Line 161 reads updatedDoc.name before anything else: a
\* null payload throws there and the state stays as it is.
RecvDoctorUpdated(updatedDoc) ==
    /\ Listening /\ CanAct
    /\ LET o == Op("doctor_updated", updatedDoc, NullProc, updatedDoc.id, "null")
           newList == onDoctorUpdated(client.doctors, updatedDoc) IN
       client' = IF updatedDoc = NullDoc THEN Did(client, o)
                 ELSE Did([client EXCEPT !.doctors = newList,
                                         !.cache.doctors = Stored(newList)], o)
    /\ UNCHANGED <<fetch, svars, pvars>>

\* lines 175-181.
RecvDoctorDeleted(id) ==
    /\ Listening /\ CanAct
    /\ LET newList == onDoctorDeleted(client.doctors, id) IN
       client' = Did([client EXCEPT !.doctors = newList,
                                    !.cache.doctors = Stored(newList)],
                     Op("doctor_deleted", NullDoc, NullProc, id, "null"))
    /\ UNCHANGED <<fetch, svars, pvars>>

\* lines 183-196.
RecvProcedureUpdated(updatedProc) ==
    /\ Listening /\ CanAct
    /\ LET newList == onProcedureUpdated(client.procedures, updatedProc) IN
       client' = Did([client EXCEPT !.procedures = newList,
                                    !.cache.procedures = Stored(newList)],
                     Op("procedure_updated", NullDoc, updatedProc,
                        updatedProc.id, "null"))
    /\ UNCHANGED <<fetch, svars, pvars>>

\* lines 198-204.
RecvProcedureDeleted(id) ==
    /\ Listening /\ CanAct
    /\ LET newList == onProcedureDeleted(client.procedures, id) IN
       client' = Did([client EXCEPT !.procedures = newList,
                                    !.cache.procedures = Stored(newList)],
                     Op("procedure_deleted", NullDoc, NullProc, id, "null"))
    /\ UNCHANGED <<fetch, svars, pvars>>

\* The request functions without their first line: sent whatever isOnline is.
SendAlways(c, request) == [c EXCEPT !.outbox = Append(c.outbox, request)]

\* lines 227-258: the five ...ToApi / ...FromApi functions: nothing is sent
\* unless isOnline.
SendIfOnline(c, request) ==
    IF ~c.isOnline THEN c ELSE [c EXCEPT !.outbox = Append(c.outbox, request)]

saveDoctorToApi(c, doc) == SendIfOnline(c, Post(doc))
deleteDoctorFromApi(c, id) ==
    SendIfOnline(c, Op("DELETE /doctors", NullDoc, NullProc, id, "null"))
deleteVisitFromApi(c, doctorId, visitId) ==
    SendIfOnline(c, Op("DELETE /doctors/visits", NullDoc, NullProc, doctorId, visitId))
saveProcedureToApi(c, proc) ==
    SendIfOnline(c, Op("POST /procedures", NullDoc, proc, proc.id, "null"))
deleteProcedureFromApi(c, id) ==
    SendIfOnline(c, Op("DELETE /procedures", NullDoc, NullProc, id, "null"))

\* The pages are rendered for a logged-in user only (line 357).
CanMutate == client.mounted /\ client.user /\ CanAct

\* lines 280-284.
updateDoctor(updatedDoctor) ==
    /\ CanMutate
    /\ client' = Did(saveDoctorToApi(
                        [client EXCEPT !.doctors = MapReplace(@, updatedDoctor)],
                        updatedDoctor),
                     Op("updateDoctor", updatedDoctor, NullProc, updatedDoctor.id, "null"))
    /\ UNCHANGED <<fetch, svars, pvars>>

\* lines 286-289.  The id of a new doctor is generated by the page: it is
\* not one the list holds.
addDoctor(newDoctor) ==
    /\ CanMutate
    /\ ~Exists(client.doctors, newDoctor.id)
    /\ client' = Did(saveDoctorToApi(
                        [client EXCEPT !.doctors = <<newDoctor>> \o @],
                        newDoctor),
                     Op("addDoctor", newDoctor, NullProc, newDoctor.id, "null"))
    /\ UNCHANGED <<fetch, svars, pvars>>

\* lines 291-294.
deleteDoctor(id) ==
    /\ CanMutate
    /\ client' = Did(deleteDoctorFromApi(
                        [client EXCEPT !.doctors = FilterOut(@, id)], id),
                     Op("deleteDoctor", NullDoc, NullProc, id, "null"))
    /\ UNCHANGED <<fetch, svars, pvars>>

\* lines 296-304.
WithoutVisit(l, doctorId, visitId) ==
    [i \in 1..Len(l) |->
        IF l[i].id = doctorId
        THEN [l[i] EXCEPT !.visits = @ \ {visitId}] ELSE l[i]]
handleDeleteVisit(doctorId, visitId) ==
    /\ CanMutate
    /\ client' = Did(deleteVisitFromApi(
                        [client EXCEPT !.doctors = WithoutVisit(@, doctorId, visitId)],
                        doctorId, visitId),
                     Op("handleDeleteVisit", NullDoc, NullProc, doctorId, visitId))
    /\ UNCHANGED <<fetch, svars, pvars>>

\* lines 306-309.
addProcedure(newProc) ==
    /\ CanMutate
    /\ ~Exists(client.procedures, newProc.id)
    /\ client' = Did(saveProcedureToApi(
                        [client EXCEPT !.procedures = Append(@, newProc)], newProc),
                     Op("addProcedure", NullDoc, newProc, newProc.id, "null"))
    /\ UNCHANGED <<fetch, svars, pvars>>

\* lines 311-314.
updateProcedure(updatedProc) ==
    /\ CanMutate
    /\ client' = Did(saveProcedureToApi(
                        [client EXCEPT !.procedures = MapReplace(@, updatedProc)],
                        updatedProc),
                     Op("updateProcedure", NullDoc, updatedProc, updatedProc.id, "null"))
    /\ UNCHANGED <<fetch, svars, pvars>>

\* lines 316-319.
deleteProcedure(id) ==
    /\ CanMutate
    /\ client' = Did(deleteProcedureFromApi(
                        [client EXCEPT !.procedures = FilterOut(@, id)], id),
                     Op("deleteProcedure", NullDoc, NullProc, id, "null"))
    /\ UNCHANGED <<fetch, svars, pvars>>

\* addTimeOff and deleteTimeOff (lines 321-329) are handed to no page
\* (lines 404-416): nothing can call them.

\* lines 331-344: importFullBackup, handed to the Dashboard.  forEach calls
\* saveDoctorToApi / saveProcedureToApi once per element, all with the
\* isOnline of the render that created the callback.
RECURSIVE SendEach(_, _, _)
SendEach(c, l, kind) ==
    IF l = <<>> THEN c
    ELSE SendEach(IF kind = "doctor" THEN saveDoctorToApi(c, Head(l))
                  ELSE saveProcedureToApi(c, Head(l)),
                  Tail(l), kind)
BackupData == [doctors |-> <<D2A>>, procedures |-> <<[id |-> "p2", status |-> "s1"]>>]
importFullBackup(data) ==
    /\ CanMutate
    /\ client' = Did(SendEach(SendEach([client EXCEPT !.doctors = data.doctors,
                                                      !.procedures = data.procedures],
                                       data.doctors, "doctor"),
                              data.procedures, "procedure"),
                     Op("importFullBackup", NullDoc, NullProc, "null", "null"))
    /\ UNCHANGED <<fetch, svars, pvars>>

(***************************************************************************)
(* Specifications of the server                                            *)
(***************************************************************************)
\* The component before it is mounted (lines 33-45), on a browser whose
\* localStorage holds `cache`.  bootCache is history: what it held then.
NoCache == [doctors |-> Absent, procedures |-> Absent, timeoff |-> Absent]
NewClient(cache) ==
    [mounted |-> FALSE, user |-> FALSE, doctors |-> <<>>, procedures |-> <<>>,
     timeOffEvents |-> <<>>, loading |-> TRUE, isOnline |-> TRUE,
     socketConnected |-> FALSE, cache |-> cache, outbox |-> <<>>,
     nOps |-> 0, last |-> NoOp, bootCache |-> cache, sent |-> 0]

\* The store is a database that outlives the server process: a run starts on
\* rows an earlier run has left.  Each seed satisfies the schema's keys.
Seed(doctor, visit, schedule) ==
    /\ Doctor = doctor
    /\ Visit = visit
    /\ Schedule = schedule

SeedStores ==
    \/ Seed([d \in DoctorIds |-> NoRow], NoVisits, [d \in DoctorIds |-> {}])
    \/ Seed([d \in DoctorIds |-> IF d = "d1" THEN "A" ELSE NoRow],
            NoVisits, [d \in DoctorIds |-> {}])
    \/ Seed([d \in DoctorIds |-> IF d = "d1" THEN "A" ELSE NoRow],
            [v \in VisitIds |-> IF v = "v1" THEN "d1" ELSE NoRow],
            [d \in DoctorIds |-> IF d = "d1" THEN {"mon"} ELSE {}])
    \/ Seed([d \in DoctorIds |-> "A"],
            [v \in VisitIds |-> IF v = "v1" THEN "d1" ELSE "d2"],
            [d \in DoctorIds |-> {}])
    \/ Seed([d \in DoctorIds |-> IF d = "d2" THEN "A" ELSE NoRow],
            [v \in VisitIds |-> IF v = "v2" THEN "d2" ELSE NoRow],
            [d \in DoctorIds |-> IF d = "d2" THEN {"mon"} ELSE {}])

\* No procedure stored, no procedure request yet, no browser connected.
NoProcedureTraffic ==
    /\ Procedure = NoProcedures
    /\ pu = IdlePu
    /\ pd = IdlePd
    /\ sockets = {}

ServerInit ==
    /\ SeedStores
    /\ tx = [r \in Reqs |-> IdleTx]
    /\ dv = IdleDv
    /\ dd = IdleDd
    /\ emitted = NoneEmitted
    /\ nReq = 0
    /\ client = NewClient(NoCache)
    /\ fetch = [f \in FetchIds |-> IdleFetch]
    /\ NoProcedureTraffic

\* Two saves of the same doctor, in sequence or interleaved at their awaits.
UpsertNext ==
    \/ \E r \in Reqs, b \in D1Bodies : nReq < MaxUpserts /\ ReceiveUpsert(r, b)
    \/ \E r \in Reqs : UpsertDoctor(r)

SpecUpsert == ServerInit /\ [][UpsertNext]_vars

\* Saves (one at a time) interleaved with the two delete handlers.
ServerNext ==
    \/ \E b \in SentBodies : nReq < MaxRequests /\ ReceiveUpsert(1, b)
    \/ UpsertDoctor(1)
    \/ \E id \in DoctorIds : nReq < MaxRequests /\ DeleteDoctor(id)
    \/ \E d \in DoctorIds, v \in VisitIds :
          nReq < MaxRequests /\ DeleteVisitDestroy(d, v)
    \/ DeleteVisitReRead

SpecServer == ServerInit /\ [][ServerNext]_vars

\* All five write routes and the connections of two browsers, over a store
\* that has doctor d1 with a visit and a slot.
PublishBodies ==
    { b \in D1Bodies :
        /\ b.name = "A2"
        /\ <<b.hasVisits, b.visits, b.hasSchedule, b.schedule>> \in
               {<<FALSE, {}, FALSE, {}>>, <<TRUE, {"v1"}, TRUE, {"mon"}>>} }

PublishInit ==
    /\ Seed([d \in DoctorIds |-> IF d = "d1" THEN "A" ELSE NoRow],
            [v \in VisitIds |-> IF v = "v1" THEN "d1" ELSE NoRow],
            [d \in DoctorIds |-> IF d = "d1" THEN {"mon"} ELSE {}])
    /\ tx = [r \in Reqs |-> IdleTx]
    /\ dv = IdleDv
    /\ dd = IdleDd
    /\ emitted = NoneEmitted
    /\ nReq = 0
    /\ client = NewClient(NoCache)
    /\ fetch = [f \in FetchIds |-> IdleFetch]
    /\ Procedure \in {NoProcedures, [NoProcedures EXCEPT !["p1"] = "s1"]}
    /\ pu = IdlePu
    /\ pd = IdlePd
    /\ sockets = {}

PublishNext ==
    \/ \E b \in PublishBodies : nReq < MaxRequests /\ ReceiveUpsert(1, b)
    \/ UpsertDoctor(1)
    \/ \E id \in DoctorIds : nReq < MaxRequests /\ DeleteDoctor(id)
    \/ \E d \in DoctorIds, v \in VisitIds :
          nReq < MaxRequests /\ DeleteVisitDestroy(d, v)
    \/ DeleteVisitReRead
    \/ \E k \in SocketIds : SocketConnected(k)
    \/ \E k \in SocketIds : SocketDisconnected(k)
    \/ \E b \in ProcBodies : nReq < MaxRequests /\ ReceiveUpsertProcedure(b)
    \/ UpsertProcedure
    \/ \E id \in ProcIds : nReq < MaxRequests /\ DeleteProcedure(id)

SpecPublish == PublishInit /\ [][PublishNext]_vars

(***************************************************************************)
(* Specification of the seeding: one browser and the server                *)
(***************************************************************************)
\* GET /api/doctors (src/server.js:127-139): the rows in the order of their
\* ids, as JSON.
DoctorOrder == <<"d1", "d2">>
ListDoctorsJson ==
    SelectSeq([i \in 1..Len(DoctorOrder) |-> FindOneHydrated(DoctorOrder[i])],
              LAMBDA d : d # NullDoc)

\* JSON.stringify(d) of a doctor of the client: both child arrays are in
\* the body, empty or not.
BodyOf(doc) ==
    [id |-> doc.id, name |-> doc.name, hasVisits |-> TRUE, visits |-> doc.visits,
     hasSchedule |-> TRUE, schedule |-> doc.schedule]

\* The next POST the browser has sent reaches the server.
ReceiveSent(r) ==
    /\ nReq < Len(client.outbox)
    /\ client.outbox[nReq + 1].op = "POST /doctors"
    /\ ReceiveUpsert(r, BodyOf(client.outbox[nReq + 1].doc))

\* The two GETs of a fetchData call are answered from the store, or the
\* doctor request gets no response.
FetchAnswered(f) ==
    \E docRes \in {NoResponse, Ok(ListDoctorsJson)},
       procRes \in {NoResponse, Ok(<<>>)} : FetchArrive(f, docRes, procRes)

SeedingInit ==
    /\ \/ Seed([d \in DoctorIds |-> NoRow], NoVisits, [d \in DoctorIds |-> {}])
       \/ Seed([d \in DoctorIds |-> IF d = "d1" THEN "A2" ELSE NoRow],
               NoVisits, [d \in DoctorIds |-> {}])
    /\ tx = [r \in Reqs |-> IdleTx]
    /\ dv = IdleDv
    /\ dd = IdleDd
    /\ emitted = NoneEmitted
    /\ nReq = 0
    /\ client = NewClient(NoCache)
    /\ fetch = [f \in FetchIds |-> IdleFetch]
    /\ NoProcedureTraffic

SeedingNext ==
    \/ \E savedUser \in BOOLEAN : Mount(savedUser)
    \/ handleLogin
    \/ \E f \in FetchIds : FetchAnswered(f)
    \/ \E f \in FetchIds : FetchDoctorsRead(f)
    \/ \E f \in FetchIds : FetchProceduresRead(f)
    \/ \E r \in Reqs : ReceiveSent(r)
    \/ \E r \in Reqs : FindDoctor(r)
    \/ \E r \in Reqs : CreateDoctor(r)
    \/ \E r \in Reqs : UpdateDoctor(r)
    \/ \E r \in Reqs : DestroyVisitsTx(r)
    \/ \E r \in Reqs : DestroyScheduleTx(r)
    \/ \E r \in Reqs : UpsertStepFails(r)
    \/ \E r \in Reqs : CommitTx(r)
    \/ \E r \in Reqs : CommitFails(r)
    \/ \E r \in Reqs : ReReadAndPublish(r)
    \/ \E r \in Reqs : ReReadFails(r)

SpecSeeding == SeedingInit /\ [][SeedingNext]_vars

(***************************************************************************)
(* Specification of one browser kept in step with the server: its socket   *)
(* stays connected, other browsers write, no statement of the server fails *)
(***************************************************************************)
\* A POST of the browser's outbox reaches the server (src/server.js:141-143):
\* the requests of one browser arrive in the order they were sent.
ReceiveFromBrowser(r) ==
    /\ client.sent < Len(client.outbox)
    /\ client.outbox[client.sent + 1].op = "POST /doctors"
    /\ tx[r].pc \in {"idle", "done", "crashed"}
    /\ tx' = [tx EXCEPT ![r] = [IdleTx EXCEPT
                  !.pc = "find",
                  !.data = BodyOf(client.outbox[client.sent + 1].doc)]]
    /\ nReq' = nReq + 1
    /\ client' = [client EXCEPT !.sent = @ + 1]
    /\ UNCHANGED <<Doctor, Visit, Schedule, dv, dd, emitted, fetch, pvars>>

\* What the handler of an event does to the component's state (part_000
\* lines 160-203).  A null doctor throws at line 161 and changes nothing.
HandleEvent(c, ev) ==
    CASE ev.type = "doctor_updated" ->
           IF ev.doc = NullDoc THEN c
           ELSE LET newList == onDoctorUpdated(c.doctors, ev.doc) IN
                [c EXCEPT !.doctors = newList, !.cache.doctors = Stored(newList)]
      [] ev.type = "doctor_deleted" ->
           LET newList == onDoctorDeleted(c.doctors, ev.id) IN
           [c EXCEPT !.doctors = newList, !.cache.doctors = Stored(newList)]
      [] ev.type = "procedure_updated" ->
           LET newList == onProcedureUpdated(c.procedures, ev.proc) IN
           [c EXCEPT !.procedures = newList, !.cache.procedures = Stored(newList)]
      [] ev.type = "procedure_deleted" ->
           LET newList == onProcedureDeleted(c.procedures, ev.id) IN
           [c EXCEPT !.procedures = newList, !.cache.procedures = Stored(newList)]
      [] OTHER -> c

\* The oldest event written to the browser's socket arrives and its handler
\* runs.
SocketDeliver ==
    /\ Listening
    /\ emitted.wire # <<>>
    /\ client' = HandleEvent(client, Head(emitted.wire))
    /\ emitted' = [emitted EXCEPT !.wire = Tail(@)]
    /\ UNCHANGED <<Doctor, Visit, Schedule, tx, dv, dd, nReq, fetch, pvars>>

\* Bodies other browsers post: a new doctor d2, and d1 renamed.
OtherBodies ==
    { b \in SentBodies :
        /\ ~b.hasVisits /\ ~b.hasSchedule
        /\ <<b.id, b.name>> \in {<<"d2", "A">>, <<"d1", "A2">>} }

\* The browser has mounted with a saved user on an empty cache, its socket
\* is connected and its first fetchData waits for the two responses; the
\* store holds doctor d1.
SyncInit ==
    /\ Seed([d \in DoctorIds |-> IF d = "d1" THEN "A" ELSE NoRow],
            NoVisits, [d \in DoctorIds |-> {}])
    /\ tx = [r \in Reqs |-> IdleTx]
    /\ dv = IdleDv
    /\ dd = IdleDd
    /\ emitted = NoneEmitted
    /\ nReq = 0
    /\ client = [fetchDataCall(loadFromLocalStorage(
                    [NewClient(NoCache) EXCEPT !.mounted = TRUE, !.user = TRUE]))
                 EXCEPT !.socketConnected = TRUE, !.isOnline = TRUE]
    /\ fetch = [f \in FetchIds |->
                  IF f = 1 THEN [IdleFetch EXCEPT !.pc = "wait"] ELSE IdleFetch]
    /\ Procedure = NoProcedures
    /\ pu = IdlePu
    /\ pd = IdlePd
    /\ sockets = {WatchedSocket}

SyncNext ==
    \/ FetchArrive(1, Ok(ListDoctorsJson), Ok(<<>>))
    \/ FetchDoctorsRead(1)
    \/ FetchProceduresRead(1)
    \/ \E doc \in {D2A} : addDoctor(doc)
    \/ \E doc \in {D1A2} : updateDoctor(doc)
    \/ nReq < MaxRequests /\ ReceiveFromBrowser(2)
    \/ \E b \in OtherBodies : nReq < MaxRequests /\ ReceiveUpsert(1, b)
    \/ \E id \in DoctorIds : nReq < MaxRequests /\ DeleteDoctor(id)
    \/ \E r \in Reqs : FindDoctor(r)
    \/ \E r \in Reqs : CreateDoctor(r)
    \/ \E r \in Reqs : UpdateDoctor(r)
    \/ \E r \in Reqs : DestroyVisitsTx(r)
    \/ \E r \in Reqs : DestroyScheduleTx(r)
    \/ \E r \in Reqs : CommitTx(r)
    \/ \E r \in Reqs : ReReadAndPublish(r)
    \/ SocketDeliver

SpecSync == SyncInit /\ [][SyncNext]_vars

(***************************************************************************)
(* Specification of the client                                             *)
(***************************************************************************)
\* What an earlier session left in localStorage.
CacheSeeds ==
    { NoCache,
      [doctors |-> Stored(<<D1Av1>>),
       procedures |-> Stored(<<[id |-> "p1", status |-> "s2"]>>),
       timeoff |-> Stored(<<[id |-> "t1"]>>)] }

ClientInit ==
    /\ Doctor = [d \in DoctorIds |-> NoRow]
    /\ Visit = NoVisits
    /\ Schedule = [d \in DoctorIds |-> {}]
    /\ tx = [r \in Reqs |-> IdleTx]
    /\ dv = IdleDv
    /\ dd = IdleDd
    /\ emitted = NoneEmitted
    /\ nReq = 0
    /\ \E cache \in CacheSeeds : client = NewClient(cache)
    /\ fetch = [f \in FetchIds |-> IdleFetch]
    /\ NoProcedureTraffic

ClientNext ==
    \/ \E savedUser \in BOOLEAN : Mount(savedUser)
    \/ handleLogin
    \/ handleLogout
    \/ \E f \in FetchIds, docRes \in DocResponses, procRes \in ProcResponses :
          FetchArrive(f, docRes, procRes)
    \/ \E f \in FetchIds : FetchDoctorsRead(f)
    \/ \E f \in FetchIds : FetchProceduresRead(f)
    \/ SocketConnect
    \/ SocketDisconnect
    \/ \E doc \in ClientDocs \cup {NullDoc} : RecvDoctorUpdated(doc)
    \/ \E id \in DoctorIds : RecvDoctorDeleted(id)
    \/ \E proc \in ClientProcs : RecvProcedureUpdated(proc)
    \/ \E id \in ProcIds : RecvProcedureDeleted(id)
    \/ \E doc \in ClientDocs : updateDoctor(doc)
    \/ \E doc \in ClientDocs : addDoctor(doc)
    \/ \E id \in DoctorIds : deleteDoctor(id)
    \/ \E d \in DoctorIds, v \in VisitIds : handleDeleteVisit(d, v)
    \/ \E proc \in ClientProcs : addProcedure(proc)
    \/ \E proc \in ClientProcs : updateProcedure(proc)
    \/ \E id \in ProcIds : deleteProcedure(id)
    \/ importFullBackup(BackupData)

SpecClient == ClientInit /\ [][ClientNext]_vars

(***************************************************************************)
(* Specification of one load: mount, the two requests, the end of          *)
(* fetchData, from every kind of cache                                     *)
(***************************************************************************)
CacheEntries(l) == {Absent, Corrupt, Stored(l)}
LoadCaches ==
    [doctors : CacheEntries(<<D1Av1>>),
     procedures : CacheEntries(<<[id |-> "p1", status |-> "s2"]>>),
     timeoff : CacheEntries(<<[id |-> "t1"]>>)]

LoadInit ==
    /\ Doctor = [d \in DoctorIds |-> NoRow]
    /\ Visit = NoVisits
    /\ Schedule = [d \in DoctorIds |-> {}]
    /\ tx = [r \in Reqs |-> IdleTx]
    /\ dv = IdleDv
    /\ dd = IdleDd
    /\ emitted = NoneEmitted
    /\ nReq = 0
    /\ \E cache \in LoadCaches : client = NewClient(cache)
    /\ fetch = [f \in FetchIds |-> IdleFetch]
    /\ NoProcedureTraffic

LoadNext ==
    \/ \E savedUser \in BOOLEAN : Mount(savedUser)
    \/ \E docRes \in DocResponses, procRes \in ProcResponses :
          FetchArrive(1, docRes, procRes)
    \/ FetchDoctorsRead(1)
    \/ FetchProceduresRead(1)

SpecLoad == LoadInit /\ [][LoadNext]_vars

(***************************************************************************)
(* Properties of the server                                                *)
(***************************************************************************)
Store == <<Doctor, Visit, Schedule>>
Saved(r) == tx[r].pc = "done" /\ tx[r].resp = "ok"
Record(b) == [id |-> b.id, name |-> b.name, visits |-> b.visits,
              schedule |-> b.schedule]

\* C1: when a save that carries visits and schedule has answered success and
\* no other request has written since it committed, the list holds exactly
\* one record with its id, and that record has the submitted scalar fields,
\* the submitted visits and the submitted schedule.
Cex_C1_SaveThenList ==
    \A r \in Reqs :
        (Saved(r) /\ ~tx[r].dirty /\ tx[r].data.hasVisits /\ tx[r].data.hasSchedule)
        => /\ {x \in ListDoctors : x.id = tx[r].data.id} = {Record(tx[r].data)}
           /\ FindOneHydrated(tx[r].data.id) = Record(tx[r].data)

Cex_C3_NoUnionOfConcurrentSaves ==
    (/\ \A r \in Reqs : Saved(r) /\ tx[r].data.hasVisits /\ tx[r].data.hasSchedule
     /\ tx[1].data.id = tx[2].data.id)
    => /\ VisitsOf(tx[1].data.id) \in {tx[1].data.visits, tx[2].data.visits}
       /\ Schedule[tx[1].data.id] \in {tx[1].data.schedule, tx[2].data.schedule}

\* C4: every visit row and every schedule row belongs to a doctor that is
\* stored, and a doctor whose delete answered success and who has not been
\* saved again has no child row.
Thm_C4_ChildrenHaveParent ==
    /\ \A v \in VisitIds : Visit[v] # NoRow => Doctor[Visit[v]] # NoRow
    /\ \A d \in DoctorIds : Schedule[d] # {} => Doctor[d] # NoRow
    /\ (dd.status = "ok" /\ Doctor[dd.id] = NoRow)
          => VisitsOf(dd.id) = {} /\ Schedule[dd.id] = {}

\* A save of d1 with a visit found the doctor, the doctor was deleted before
\* the bulk insert, and the save failed; d2 still owns its visit.
Wit_C4_DeleteRacesSave ==
    /\ dd.id = "d1" /\ dd.status = "ok"
    /\ Doctor["d1"] = NoRow
    /\ tx[1].pc = "done" /\ tx[1].resp = "error" /\ tx[1].at = "vins"
    /\ tx[1].data.id = "d1" /\ tx[1].data.visits = {"v1"}
    /\ Visit["v2"] = "d2"

\* C5: a visit delete issued after its doctor was deleted, and not failing in
\* the store, answers not-found.
Cex_C5_VisitDeleteAfterDoctorDelete ==
    (dv.pc = "done" /\ dv.afterDelete /\ dv.status # "error")
    => dv.status = "notfound"

\* C6: the delete of (doctorId, visitId) removes that visit if doctorId owns
\* it and changes no other row; its success answer, when the doctor exists
\* and nothing else has written since, is the doctor with all the visits it
\* still has, the deleted one not among them.
AnsweredVisitDelete ==
    (dv.pc = "done" /\ dv.status = "ok" /\ ~dv.dirty
        /\ Doctor[dv.doctorId] # NoRow)
    => /\ dv.result = FindOneHydrated(dv.doctorId)
       /\ dv.visitId \notin dv.result.visits
Thm_C6_DeleteVisitRemovesOnlyThatVisit ==
    [][/\ (dv.pc # "reread" /\ dv'.pc = "reread")
            => /\ \A v \in VisitIds :
                    Visit'[v] = IF v = dv'.visitId /\ Visit[v] = dv'.doctorId
                                THEN NoRow ELSE Visit[v]
               /\ Doctor' = Doctor
               /\ Schedule' = Schedule
       /\ AnsweredVisitDelete']_vars

\* d1 asked to delete v2, which d2 owns, while d1 owns v1: both visits stay
\* and the answer lists v1.
Wit_C6_OtherOwnersVisitKept ==
    /\ dv.pc = "done" /\ dv.status = "ok" /\ ~dv.dirty
    /\ dv.doctorId = "d1" /\ dv.visitId = "v2"
    /\ Visit = [NoVisits EXCEPT !["v1"] = "d1", !["v2"] = "d2"]
    /\ dv.result.visits = {"v1"}

(***************************************************************************)
(* Properties of the client                                                *)
(***************************************************************************)
\* The step is one counted operation (a login, a mutation, an import or an
\* inbound event); client'.last tells which.
OneOp == client'.nOps = client.nOps + 1

ReplacedInPlace(prev, new, x) ==
    /\ Len(new) = Len(prev)
    /\ \A i \in 1..Len(prev) : new[i] = IF prev[i].id = x.id THEN x ELSE prev[i]

\* C7: a doctor_updated event with a record replaces the entry of that id
\* where it stands and leaves every other entry as and where it was, or, when
\* no entry has that id, puts the record first with the previous list behind
\* it; a doctor_deleted event leaves the entries of other ids, in their order.
Thm_C7_DoctorEventsMerge ==
    [][LET e == client'.last
           prev == client.doctors
           new == client'.doctors IN
       OneOp =>
         /\ (e.op = "doctor_updated" /\ e.doc # NullDoc)
               => IF \E i \in 1..Len(prev) : prev[i].id = e.doc.id
                  THEN ReplacedInPlace(prev, new, e.doc)
                  ELSE new = <<e.doc>> \o prev
         /\ e.op = "doctor_deleted"
               => new = SelectSeq(prev, LAMBDA d : d.id # e.id)]_vars

\* The fetched list <<d2, d1>> after the event for d1: d1 is still second.
Wit_C7_ReplacedSecondEntry ==
    /\ client.nOps = 1
    /\ client.last.op = "doctor_updated" /\ client.last.doc = D1A
    /\ client.doctors = <<D2A, D1A>>

\* C8: a procedure_updated event whose id the list does not hold puts the
\* procedure last, behind the previous list; one whose id the list holds
\* replaces that entry where it stands and leaves the others as they were.
Thm_C8_ProcedureEventMerge ==
    [][LET e == client'.last
           prev == client.procedures
           new == client'.procedures IN
       (OneOp /\ e.op = "procedure_updated")
         => IF \E i \in 1..Len(prev) : prev[i].id = e.proc.id
            THEN ReplacedInPlace(prev, new, e.proc)
            ELSE new = prev \o <<e.proc>>]_vars

\* The fetched list <<p1>> after the event for p2: p2 is last.
Wit_C8_AppendedLast ==
    /\ client.nOps = 1
    /\ client.last.op = "procedure_updated"
    /\ client.procedures = <<[id |-> "p1", status |-> "s1"],
                             [id |-> "p2", status |-> "s1"]>>

\* C9: the step on which a load ends after both requests got no response
\* leaves the client offline, not loading, and with its doctors, procedures
\* and time-off equal to the cached arrays (empty where nothing is cached).
Cex_C9_OfflineLoadShowsCache ==
    [][\A f \in FetchIds :
        (/\ fetch[f].pc = "wait" /\ fetch'[f].pc = "done"
         /\ fetch'[f].docRes.kind = "none" /\ fetch'[f].procRes.kind = "none")
        => /\ ~client'.isOnline
           /\ ~client'.loading
           /\ client'.doctors = client'.cache.doctors.list
           /\ client'.procedures = client'.cache.procedures.list
           /\ client'.timeOffEvents = client'.cache.timeoff.list]_vars

\* The request each local mutation stands for.
MutationOps == {"updateDoctor", "addDoctor", "deleteDoctor", "handleDeleteVisit",
                "addProcedure", "updateProcedure", "deleteProcedure"}
RequestOf(e) ==
    [e EXCEPT !.op =
        CASE e.op \in {"updateDoctor", "addDoctor"} -> "POST /doctors"
          [] e.op = "deleteDoctor" -> "DELETE /doctors"
          [] e.op = "handleDeleteVisit" -> "DELETE /doctors/visits"
          [] e.op \in {"addProcedure", "updateProcedure"} -> "POST /procedures"
          [] e.op = "deleteProcedure" -> "DELETE /procedures"
          [] OTHER -> "none"]

\* The lists after mutation e, from the lists before it.
Applied(e, docs, procs, newDocs, newProcs) ==
    /\ e.op = "updateDoctor" => ReplacedInPlace(docs, newDocs, e.doc)
    /\ e.op = "addDoctor" => newDocs = <<e.doc>> \o docs
    /\ e.op = "deleteDoctor" => newDocs = SelectSeq(docs, LAMBDA d : d.id # e.id)
    /\ e.op = "handleDeleteVisit"
         => /\ Len(newDocs) = Len(docs)
            /\ \A i \in 1..Len(docs) :
                 newDocs[i] = IF docs[i].id = e.id
                              THEN [docs[i] EXCEPT !.visits = @ \ {e.visitId}]
                              ELSE docs[i]
    /\ e.op = "addProcedure" => newProcs = procs \o <<e.proc>>
    /\ e.op = "updateProcedure" => ReplacedInPlace(procs, newProcs, e.proc)
    /\ e.op = "deleteProcedure"
         => newProcs = SelectSeq(procs, LAMBDA q : q.id # e.id)

\* What a step other than a local mutation may send: nothing, the default
\* doctors when the fetched doctor list is empty, or, on an import while
\* online, the records of the backup.
SeedingRequests == [i \in 1..Len(parseData) |-> Post(parseData[i])]
BackupRequests ==
    <<Post(BackupData.doctors[1]),
      Op("POST /procedures", NullDoc, BackupData.procedures[1],
         BackupData.procedures[1].id, "null")>>

\* C10: a local mutation of a doctor or procedure changes the list in the
\* same step, and in that step sends its request exactly when isOnline holds
\* before it; no other step sends the request of a mutation: what was not
\* sent on its own step is never sent.
Thm_C10_SentIffOnlineNeverLater ==
    [][LET e == client'.last
           sent == client'.outbox
           before == client.outbox IN
       IF OneOp /\ e.op \in MutationOps
       THEN /\ Applied(e, client.doctors, client.procedures,
                       client'.doctors, client'.procedures)
            /\ sent = IF client.isOnline THEN Append(before, RequestOf(e))
                      ELSE before
       ELSE IF OneOp /\ e.op = "importFullBackup"
       THEN sent = IF client.isOnline THEN before \o BackupRequests ELSE before
       ELSE sent \in {before, before \o SeedingRequests}]_vars

\* A doctor added while offline is in the list and was not sent, although
\* the client has since gone online.
Wit_C10_OfflineAddNotSentWhenOnline ==
    /\ client.last.op = "addDoctor"
    /\ \E i \in 1..Len(client.doctors) : client.doctors[i] = client.last.doc
    /\ client.outbox = <<>>
    /\ client.isOnline /\ client.socketConnected

DoctorMutations == {"updateDoctor", "addDoctor", "deleteDoctor", "handleDeleteVisit"}
ProcedureMutations == {"addProcedure", "updateProcedure", "deleteProcedure"}

\* C13: after a local mutation of a doctor (or of a visit of a doctor) the
\* cached doctor array equals the in-memory doctor list, and after a local
\* mutation of a procedure the cached procedure array equals the in-memory
\* procedure list.
Cex_C13_MutationIsCached ==
    [][OneOp =>
        /\ client'.last.op \in DoctorMutations
              => client'.cache.doctors = Stored(client'.doctors)
        /\ client'.last.op \in ProcedureMutations
              => client'.cache.procedures = Stored(client'.procedures)]_vars

IdsOf(l) == [i \in 1..Len(l) |-> l[i].id]

Thm_C16_FetchOverwrites ==
    [][\A f \in FetchIds :
        /\ (fetch[f].pc = "docjson" /\ fetch'[f].pc # "docjson")
             => LET l == fetch[f].docRes.list
                    final == IF l = <<>> THEN parseData ELSE l IN
                /\ client'.doctors = final
                /\ client'.cache.doctors = Stored(final)
        /\ (fetch[f].pc = "procjson" /\ fetch'[f].pc = "done")
             => /\ client'.procedures = fetch[f].procRes.list
                /\ client'.cache.procedures = Stored(fetch[f].procRes.list)]_vars

\* The only operation was the add of d1, made while the first load was
\* pending; the load then fetched <<d2, d1 as A2>> and the added record is
\* gone from the list and from the cache.
Wit_C16_LocalAddOverwritten ==
    /\ client.nOps = 1
    /\ client.last.op = "addDoctor" /\ client.last.doc = D1A
    /\ client.doctors = <<D2A, D1A2>>
    /\ client.cache.doctors = Stored(<<D2A, D1A2>>)

\* The cache with every malformed entry taken away.
Uncorrupt(cache) ==
    [k \in DOMAIN cache |-> IF cache[k].state = "corrupt" THEN Absent ELSE cache[k]]

\* Where one load ends from a freshly constructed component: the mount
\* effect, the responses read in turn, the end of fetchData.
LoadOutcome(cache, savedUser, docRes, procRes) ==
    LET c0 == loadFromLocalStorage([NewClient(cache) EXCEPT !.mounted = TRUE,
                                                            !.user = savedUser])
        c1 == IF docRes.kind = "ok" THEN fetchDataDoctors(c0, docRes.list) ELSE c0
        c2 == IF procRes.kind = "ok" THEN fetchDataProcedures(c1, procRes.list)
              ELSE c1 IN
    fetchDataTail(c2, docRes, procRes, docRes.kind = "ok" \/ procRes.kind = "ok")

SameOutcome(a, b) ==
    /\ a.isOnline = b.isOnline
    /\ a.doctors = b.doctors
    /\ a.procedures = b.procedures

\* C14: when the first load has ended, the client's online flag, doctors and
\* procedures are those of the same load (same saved user, same responses)
\* started from the cache with its malformed entries absent.
Cex_C14_CorruptCacheAsAbsent ==
    (fetch[1].pc = "done" /\ fetch[2].pc = "idle" /\ client.nOps = 0)
    => SameOutcome(client,
                   LoadOutcome(Uncorrupt(client.bootCache), client.user,
                               fetch[1].docRes, fetch[1].procRes))

\* A step of DELETE /api/doctors/:id: the answer is the one of the request
\* counted by the step.
RowGone(d) == Doctor[d] # NoRow /\ Doctor'[d] = NoRow
DoctorDeleteStep == nReq' = nReq + 1 /\ dd'.req = nReq'
Published(type, id) ==
    /\ emitted'.n = emitted.n + 1
    /\ emitted'.last.type = type
    /\ emitted'.last.id = id

\* C17: a doctor delete answers success exactly when it removed the row of
\* its id, and broadcasts doctor_deleted(id) exactly then; when no row has
\* the id it answers not-found (or the store's error), broadcasts nothing
\* and changes nothing.
Thm_C17_DeleteDoctorPublishesIffRemoved ==
    [][DoctorDeleteStep =>
        /\ dd'.status = "ok" <=> RowGone(dd'.id)
        /\ dd'.status = "ok" <=> Published("doctor_deleted", dd'.id)
        /\ dd'.status # "ok" => emitted' = emitted /\ Store' = Store
        /\ dd'.status = "notfound" => Doctor[dd'.id] = NoRow
        /\ Doctor[dd'.id] = NoRow => dd'.status \in {"notfound", "error"}]_vars

\* d1 was deleted and announced; the delete of d2, which was never stored,
\* answered not-found and the last event is still d1's.
Wit_C17_NotFoundAfterSuccess ==
    /\ dd.id = "d2" /\ dd.status = "notfound"
    /\ emitted.n = 1
    /\ emitted.last.type = "doctor_deleted" /\ emitted.last.id = "d1"
    /\ Doctor = [d \in DoctorIds |-> NoRow]

\* C19: the commit of a save whose body has no visits field changes no visit
\* row, and the commit of a save whose body has no schedule field changes no
\* schedule row; no other step of a save changes the store at all.
Thm_C19_AbsentFieldLeavesChildren ==
    [][\A r \in Reqs :
        (tx[r].pc = "commit" /\ tx'[r].pc = "reread")
        => /\ ~tx[r].data.hasVisits => Visit' = Visit
           /\ ~tx[r].data.hasSchedule => Schedule' = Schedule
           /\ \A d \in DoctorIds : d # tx[r].data.id => Doctor'[d] = Doctor[d]]_vars

\* d1 stored with visit v1 and a Monday slot was saved with name A2 and
\* neither field: the name changed, the visit and the slot are there.
Wit_C19_ScalarsOnly ==
    /\ tx[1].pc = "done" /\ tx[1].resp = "ok" /\ ~tx[1].dirty
    /\ tx[1].data.name = "A2"
    /\ ~tx[1].data.hasVisits /\ ~tx[1].data.hasSchedule
    /\ Doctor["d1"] = "A2" /\ Visit["v1"] = "d1" /\ Schedule["d1"] = {"mon"}
    /\ tx[2].pc = "idle"

\* C20: a save whose handler has ended has been answered, with success or
\* with an error, and it was answered with an error only if it wrote nothing
\* to the store.
Cex_C20_OneResponse ==
    \A r \in Reqs :
        tx[r].pc \in {"done", "crashed"} => tx[r].resp \in {"ok", "error"}

\* The step broadcasts one event of the type to every connection held.
SentToAll(type) ==
    /\ emitted'.n = emitted.n + 1
    /\ emitted'.last.type = type
    /\ emitted'.last.to = sockets
NothingPending(r) ==
    /\ tx[r].wDoc = NoWrite
    /\ tx[r].delV \cup tx[r].insV = {}
    /\ tx[r].delS \cup tx[r].insS = {}
ProcedureDeleteStep == nReq' = nReq + 1 /\ pd'.req = nReq'

\* C11: the step in which one of the five write routes answers success
\* broadcasts the route's event, once, to every connection the server holds
\* at that step (the requesting browser's included: no connection is left
\* out), and the route's writes are in the store by then: a save's
\* transaction has committed and holds nothing pending, a delete's row is
\* gone, and the steps that publish a doctor after a save or a visit delete,
\* or a procedure after its upsert, write nothing themselves.
Thm_C11_SuccessPublishesToAll ==
    [][/\ \A r \in Reqs :
            (tx[r].pc # "done" /\ tx'[r].pc = "done" /\ tx'[r].resp = "ok")
            => /\ SentToAll("doctor_updated")
               /\ tx[r].pc = "reread" /\ NothingPending(r)
               /\ Store' = Store
       /\ (DoctorDeleteStep /\ dd'.status = "ok")
            => /\ SentToAll("doctor_deleted") /\ emitted'.last.id = dd'.id
               /\ Doctor'[dd'.id] = NoRow
       /\ (dv.pc # "done" /\ dv'.pc = "done" /\ dv'.status = "ok")
            => /\ SentToAll("doctor_updated")
               /\ dv.pc = "reread" /\ Store' = Store
       /\ (pu.pc # "done" /\ pu'.pc = "done" /\ pu'.resp = "ok")
            => /\ SentToAll("procedure_updated")
               /\ emitted'.last.proc = pu.data
               /\ pu.pc = "publish" /\ Procedure' = Procedure
       /\ (ProcedureDeleteStep /\ pd'.status = "ok")
            => /\ SentToAll("procedure_deleted") /\ emitted'.last.id = pd'.id
               /\ Procedure'[pd'.id] = NoRow]_vars

\* With two browsers connected, a doctor was saved and then procedure p1 was
\* set to s2: both events went out, the last one to both connections.
Wit_C11_ProcedureSentToBoth ==
    /\ sockets = {"k1", "k2"}
    /\ tx[1].pc = "done" /\ tx[1].resp = "ok"
    /\ pu.pc = "done" /\ pu.resp = "ok" /\ pu.data.status = "s2"
    /\ Procedure["p1"] = "s2"
    /\ emitted.n = 2
    /\ emitted.last.type = "procedure_updated"
    /\ emitted.last.to = {"k1", "k2"}

\* C18: a step that broadcasts procedure_deleted(id) removed the row of id.
Cex_C18_ProcedureDeletedOnlyWhenRemoved ==
    [][(emitted'.n = emitted.n + 1 /\ emitted'.last.type = "procedure_deleted")
        => /\ Procedure[emitted'.last.id] # NoRow
           /\ Procedure'[emitted'.last.id] = NoRow]_vars

\* Every POST the browser sent has been received and answered with success.
SeedingProcessed ==
    /\ client.outbox # <<>>
    /\ nReq = Len(client.outbox)
    /\ emitted.n = nReq
    /\ \A r \in Reqs : tx[r].pc \in {"idle", "done"}
DefaultPosts == [i \in 1..Len(parseData) |-> Post(parseData[i])]

\* C12: a load that reads an empty doctor list from the server makes the
\* default dataset the local list and the cached list and sends one POST per
\* default doctor, in the dataset's order; and when every POST sent has been
\* answered with success, GET /api/doctors returns as many doctors as the
\* default dataset has.
Thm_C12_SeedingFillsTheStore ==
    /\ [](SeedingProcessed => Len(ListDoctorsJson) = Len(parseData))
    /\ [][\A f \in FetchIds :
            (/\ fetch[f].pc = "docjson" /\ fetch'[f].pc # "docjson"
             /\ fetch[f].docRes.list = <<>>)
            => /\ client'.doctors = parseData
               /\ client'.cache.doctors = Stored(parseData)
               /\ client'.outbox = client.outbox \o DefaultPosts]_vars

\* The store was empty at the load; the two default doctors were posted and
\* saved, and the list has them both.
Wit_C12_SeededTwoDoctors ==
    /\ client.doctors = parseData
    /\ client.outbox = DefaultPosts
    /\ SeedingProcessed
    /\ ListDoctorsJson = parseData

\* C21: the last doctor_updated event the server broadcast carries a doctor
\* record, never the empty result of a re-read that found no row.
Cex_C21_DoctorUpdatedHasDoctor ==
    emitted.last.type = "doctor_updated" => emitted.last.doc # NullDoc

\* C22: while the live channel is connected the online flag is true.
Cex_C22_ConnectedImpliesOnline ==
    client.socketConnected => client.isOnline

NoDuplicateIds(l) ==
    \A i, j \in 1..Len(l) : l[i].id = l[j].id => i = j

\* C24: the in-memory doctor list never holds two entries with the same id.
Thm_C24_NoDuplicateDoctors ==
    NoDuplicateIds(client.doctors)

\* The second operation was a doctor_updated event for d1, merged into a
\* list of two doctors: d1 is there once, with the event's record.
Wit_C24_EventAfterAdd ==
    /\ client.nOps = 2
    /\ client.last.op = "doctor_updated" /\ client.last.doc = D1A2
    /\ Len(client.doctors) = 2
    /\ Exists(client.doctors, "d2")
    /\ \E i \in 1..2 : client.doctors[i] = D1A2

\* Nothing is under way: every request the browser sent was received, every
\* save received by the server was answered with success, every event
\* written to the browser's socket was handled, and no fetchData is waiting.
Quiescent ==
    /\ Listening
    /\ client.sent = Len(client.outbox)
    /\ \A r \in Reqs : tx[r].pc = "idle" \/ (tx[r].pc = "done" /\ tx[r].resp = "ok")
    /\ dv.pc \in {"idle", "done"}
    /\ emitted.wire = <<>>
    /\ \A f \in FetchIds : fetch[f].pc \in {"idle", "done"}
StoredIds == {d \in DoctorIds : Doctor[d] # NoRow}
ListedIds == {client.doctors[i].id : i \in 1..Len(client.doctors)}

\* C23: when nothing is under way, the ids of the doctors in the browser's
\* list are the ids of the doctors in the store.
Cex_C23_ConvergedAtRest ==
    Quiescent => ListedIds = StoredIds

====
